---- MODULE Spec2Model ----
(***************************************************************************)
(* Model of line_app.py: a LINE webhook bot that manages activities.       *)
(* The state is the two tables (activity, participant), their serial       *)
(* primary-key counters, the process-wide user_states dictionary, and a    *)
(* record of the event handled last together with what it replied.         *)
(* store_up tells whether the database answers, request is the stage of    *)
(* the webhook delivery being served, threads are the handlers in flight   *)
(* when deliveries are served concurrently.  flows is a history of the     *)
(* concurrent runs: per user, the create-start commands accepted and the   *)
(* Activity records committed so far.                                      *)
(* Strings are sequences of characters, so that startswith / strip /       *)
(* split are computed as the code computes them.                           *)
(***************************************************************************)
EXTENDS Integers, Sequences, FiniteSets, TLC

VARIABLES activities, participants, user_states,
          next_activity_id, next_participant_id, handled, last,
          store_up, request, threads, flows

vars == <<activities, participants, user_states,
          next_activity_id, next_participant_id, handled, last,
          store_up, request, threads, flows>>

\* Number of webhook events handled in one run of the model.
MaxEvents == 4

\* Number of deliveries served in one run of the webhook specification.
MaxDeliveries == 3

\* Number of requests served in one run of the concurrent specification.
MaxRequests == 3

(***************************************************************************)
(* Characters and strings.  Non-ASCII characters of the source are named:  *)
(* "fu" "ben" = the two characters of the list command, "arrow" = the      *)
(* arrow of the remove command, and so on.                                 *)
(***************************************************************************)
SP == " "

CMD_HELP == <<"shuo", "ming">>
CMD_DELETE_ALL == <<"shan", "chu", "suo", "you", "fu", "ben">>
CMD_LIST == <<"fu", "ben">>
PREFIX_CREATE == <<"fu", "ben", SP>>
PREFIX_ADD == <<"+", SP>>
PREFIX_REMOVE == <<"arrow", SP, "-", SP>>

\* str.startswith
StartsWith(s, p) == Len(s) >= Len(p) /\ SubSeq(s, 1, Len(p)) = p

\* s[n:]
From(s, n) == SubSeq(s, n + 1, Len(s))

RECURSIVE LStrip(_)
LStrip(s) == IF s # <<>> /\ Head(s) = SP THEN LStrip(Tail(s)) ELSE s

RECURSIVE RStrip(_)
RStrip(s) ==
    IF s # <<>> /\ s[Len(s)] = SP THEN RStrip(SubSeq(s, 1, Len(s) - 1)) ELSE s

\* str.strip()
Strip(s) == RStrip(LStrip(s))

\* str.split(" "): every single space separates, empty pieces are kept
RECURSIVE Split(_)
Split(s) ==
    IF \A i \in 1..Len(s) : s[i] # SP
    THEN <<s>>
    ELSE LET i == CHOOSE k \in 1..Len(s) :
                      s[k] = SP /\ \A j \in 1..(k - 1) : s[j] # SP
         IN <<SubSeq(s, 1, i - 1)>> \o Split(From(s, i))

\* str.split(): runs of whitespace separate, no empty pieces
SplitWs(s) == SelectSeq(Split(s), LAMBDA t : t # <<>>)

(***************************************************************************)
(* Inputs.                                                                 *)
(***************************************************************************)
U1 == <<"U", "1">>
U2 == <<"U", "2">>
Users == {U1, U2}

\* display names the platform holds for the users
DisplayName(u) == IF u = U1 THEN <<"p">> ELSE <<"q">>

ActivityNames == {<<"r">>, <<"s">>}
PersonNames == {<<"p">>, <<"x">>}

\* the datetime picker sends "dT t"; a hand-made event may send "d t"
Times == {<<"d", SP, "t">>, <<"d", "T", "t">>}

Texts ==
    {CMD_HELP, CMD_DELETE_ALL, CMD_LIST, PREFIX_CREATE, <<"h", "i">>}
    \cup {PREFIX_CREATE \o n : n \in ActivityNames}
    \cup {PREFIX_CREATE \o <<SP>> \o n \o <<SP>> : n \in {<<"r">>}}
    \cup {PREFIX_ADD \o a \o <<SP>> \o p : a \in ActivityNames, p \in PersonNames}
    \cup {PREFIX_ADD \o a : a \in {<<"r">>}}
    \cup {PREFIX_REMOVE \o a \o <<SP>> \o p : a \in ActivityNames, p \in PersonNames}
    \cup {PREFIX_REMOVE \o a : a \in {<<"r">>}}
    \cup {<<"-", SP>> \o a \o <<SP>> \o p : a \in {<<"r">>}, p \in {<<"p">>}}

\* ids a postback can carry: those assigned so far, and one not assigned
PostbackIds == 1..next_activity_id

(***************************************************************************)
(* The store.                                                              *)
(***************************************************************************)
NoState == [step |-> "none", name |-> <<>>]

\* Activity.query.get(id)
ActivityGet(id) == {a \in activities : a.id = id}

\* Activity.query.filter_by(name=n): .first() takes one of these rows
ActivityByName(n) == {a \in activities : a.name = n}

\* activity.participants
ParticipantsOf(id) == {p \in participants : p.activity_id = id}

\* Participant.query.filter_by(activity_id=id, user_id=u)
ParticipantByUser(id, u) == {p \in ParticipantsOf(id) : p.user_id = u}

\* Participant.query.filter_by(activity_id=id, user_name=n)
ParticipantByName(id, n) == {p \in ParticipantsOf(id) : p.user_name = n}

\* the state check left out
HasDatetimeState_Unchecked(u) == TRUE

\* user_id in user_states and user_states[user_id].get('step') == 'datetime'
HasDatetimeState(u) ==
    user_states[u] # NoState /\ user_states[u].step = "datetime"

\* the entry stored under another step tag
StartCreate_WrongStep(u, activity_name) ==
    [user_states EXCEPT ![u] = [step |-> "name", name |-> activity_name]]

\* the entry stored under every key
StartCreate_AllUsers(u, activity_name) ==
    [v \in Users |-> [step |-> "datetime", name |-> activity_name]]

\* a second command that leaves the entry of the first in place
StartCreate_KeepsFirst(u, activity_name) ==
    IF user_states[u] # NoState
    THEN user_states
    ELSE [user_states EXCEPT
            ![u] = [step |-> "datetime", name |-> activity_name]]

\* user_states[user_id] = {'step': 'datetime', 'name': activity_name}
StartCreate(u, activity_name) ==
    [user_states EXCEPT ![u] = [step |-> "datetime", name |-> activity_name]]

\* the entry left in place
ClearState_Kept(u) == user_states

\* del user_states[user_id]
ClearState(u) == [user_states EXCEPT ![u] = NoState]

\* Activity(name=..., datetime=..., creator_id=user_id), id from the serial
NewActivity(u, activity_name, dt) ==
    [id |-> next_activity_id, name |-> activity_name, datetime |-> dt,
     creator_id |-> u]

\* Participant(user_id=..., user_name=..., activity_id=...)
NewParticipant(u, user_name, activity_id) ==
    [id |-> next_participant_id, user_id |-> u, user_name |-> user_name,
     activity_id |-> activity_id]

\* existing_participant of the join branch
AlreadyJoined(id, u) == ParticipantByUser(id, u) # {}

\* the creator check left out
IsCreator_Anyone(activity, u) == TRUE

\* activity.creator_id == user_id
IsCreator(activity, u) == activity.creator_id = u

\* the participants of the deleted activity left in place
ParticipantsAfterDelete_Kept(id) == participants

\* Participant.query.filter_by(activity_id=activity_id).delete()
ParticipantsAfterDelete(id) == participants \ ParticipantsOf(id)

\* every participant of that name in the activity deleted
ParticipantsAfterRemove_AllNamed(participant) ==
    {q \in participants :
        ~(q.activity_id = participant.activity_id
          /\ q.user_name = participant.user_name)}

\* db.session.delete(participant) of the remove command
ParticipantsAfterRemove(participant) == participants \ {participant}

\* a cancellation that takes every record of the user in the Activity
ParticipantsAfterCancel_AllOfUser(participant) ==
    {p \in participants :
        ~(p.activity_id = participant.activity_id
          /\ p.user_id = participant.user_id)}

\* db.session.delete(participant) of the cancel_join branch
ParticipantsAfterCancel(participant) == participants \ {participant}

\* the count taken from the rows loaded before the insertion
Headcount_Stale(parts, id) == Cardinality(ParticipantsOf(id))

\* len(activity.participants), reloaded after the commit
Headcount(parts, id) == Cardinality({p \in parts : p.activity_id = id})

\* the participants left in place
ParticipantsAfterDeleteAll_Kept == participants

\* Participant.query.delete()
ParticipantsAfterDeleteAll == {}

\* a bulk deletion that leaves the activities
ActivitiesAfterDeleteAll_Kept == activities

\* Activity.query.delete()
ActivitiesAfterDeleteAll == {}

(***************************************************************************)
(* Replies.                                                                *)
(***************************************************************************)
Reply(tag) ==
    [tag |-> tag, activity_name |-> <<>>, user_name |-> <<>>,
     datetime |-> <<>>, count |-> 0, list |-> {}]

ReplyA(tag, aname) == [Reply(tag) EXCEPT !.activity_name = aname]

ReplyAU(tag, aname, uname) ==
    [Reply(tag) EXCEPT !.activity_name = aname, !.user_name = uname]

ReplyJoined(tag, aname, uname, dt, n) ==
    [Reply(tag) EXCEPT !.activity_name = aname, !.user_name = uname,
                       !.datetime = dt, !.count = n]

Event(kind, u, text, action, id, dt, profile, replies, raised) ==
    [kind |-> kind, user |-> u, text |-> text, action |-> action, id |-> id,
     datetime |-> dt, profile |-> profile, replies |-> replies,
     raised |-> raised]

(***************************************************************************)
(* One handled event: the new store, the new user_states, what was         *)
(* replied.                                                                *)
(***************************************************************************)
Effect(acts, parts, states, naid, npid, ev) ==
    /\ activities' = acts
    /\ participants' = parts
    /\ user_states' = states
    /\ next_activity_id' = naid
    /\ next_participant_id' = npid
    /\ last' = ev
    /\ handled' = handled + 1

\* a handler that changes no record and no user state
ReplyOnly(ev) ==
    Effect(activities, participants, user_states,
           next_activity_id, next_participant_id, ev)

\* a handler that deletes the state entry before the commit that fails
StoreFailure_DropsState(ev) ==
    Effect(activities, participants, ClearState(ev.user),
           next_activity_id, next_participant_id,
           [ev EXCEPT !.profile = "unused", !.replies = <<>>, !.raised = TRUE])

\* an exception of the store inside the handler's try: nothing is committed,
\* nothing is replied, the except branch logs it
StoreFailure(ev) ==
    Effect(activities, participants, user_states,
           next_activity_id, next_participant_id,
           [ev EXCEPT !.profile = "unused", !.replies = <<>>, !.raised = TRUE])

\* a branch that ends in db.session.commit()
Commit(acts, parts, states, naid, npid, ev) ==
    IF store_up
    THEN Effect(acts, parts, states, naid, npid, ev)
    ELSE StoreFailure(ev)

\* a branch that only queries the store
Query(ev) == IF store_up THEN ReplyOnly(ev) ELSE StoreFailure(ev)

TextEvent(u, text, replies, raised) ==
    Event("text", u, text, "", 0, <<>>, "unused", replies, raised)

PostbackEvent(u, pb, profile, replies, raised) ==
    Event("postback", u, <<>>, pb.action, pb.id, pb.datetime, profile,
          replies, raised)

\* the fallback of the unused helper get_user_profile
ProfileName_Unknown(u, profile_ok) ==
    IF profile_ok THEN DisplayName(u) ELSE <<"wei", "zhi", "yong", "hu">>

\* messaging_api.get_profile(user_id) with the handlers' except branch
ProfileName(u, profile_ok) == IF profile_ok THEN DisplayName(u) ELSE u

ProfileTag(profile_ok) == IF profile_ok THEN "ok" ELSE "failed"

(***************************************************************************)
(* create_activities_list_flex over a given store.  It indexes             *)
(* activity.datetime.split()[0] and [1], which raises IndexError for a     *)
(* datetime without two whitespace-separated parts.                        *)
(***************************************************************************)
ListRaises(acts) == \E a \in acts : Len(SplitWs(a.datetime)) < 2

create_activities_list_flex(acts, parts) ==
    IF acts = {}
    THEN Reply("no_activities")
    ELSE [Reply("activity_list") EXCEPT !.list =
            {[id |-> a.id, name |-> a.name,
              date |-> SplitWs(a.datetime)[1], time |-> SplitWs(a.datetime)[2],
              count |-> Cardinality({p \in parts : p.activity_id = a.id})] :
             a \in acts}]

\* the replies of a handler that answers with the activity list
ListReplies(acts, parts) ==
    IF ListRaises(acts) THEN <<>> ELSE <<create_activities_list_flex(acts, parts)>>

(***************************************************************************)
(* handle_text_message (the second registration, which replaces the        *)
(* first in the WebhookHandler).                                           *)
(***************************************************************************)
TextAddParticipant(u, text) ==
    LET parts == Split(text) IN
    IF Len(parts) = 3
    THEN LET activity_name == parts[2]
             new_participant_name == parts[3]
         IN IF ActivityByName(activity_name) # {}
            THEN \E activity \in ActivityByName(activity_name) :
                   IF ParticipantByName(activity.id, new_participant_name) # {}
                   THEN Query(TextEvent(u, text,
                          <<ReplyAU("already_registered", activity_name,
                                    new_participant_name)>>, FALSE))
                   ELSE LET new_participant ==
                              NewParticipant(u, new_participant_name,
                                             activity.id)
                            parts2 == participants \cup {new_participant}
                        IN Commit(activities, parts2, user_states,
                                  next_activity_id, next_participant_id + 1,
                                  TextEvent(u, text,
                                    <<ReplyJoined("registered", activity_name,
                                        new_participant_name, activity.datetime,
                                        Headcount(parts2, activity.id))>>,
                                    FALSE))
            ELSE Query(TextEvent(u, text,
                   <<ReplyA("activity_not_found", activity_name)>>, FALSE))
    ELSE ReplyOnly(TextEvent(u, text, <<Reply("add_usage")>>, FALSE))

TextHelp(u, text) == ReplyOnly(TextEvent(u, text, <<Reply("help")>>, FALSE))

\* the command deleting at once, without the confirmation round
TextDeleteAll_Immediate(u, text) ==
    Effect({}, {}, user_states, next_activity_id, next_participant_id,
           TextEvent(u, text,
             <<[Reply("confirm_delete_all_card") EXCEPT
                  !.list = {"confirm_delete_all", "cancel_delete_all"}]>>,
             FALSE))

TextDeleteAll(u, text) ==
    ReplyOnly(TextEvent(u, text,
      <<[Reply("confirm_delete_all_card") EXCEPT
           !.list = {"confirm_delete_all", "cancel_delete_all"}]>>, FALSE))

TextRemoveParticipant(u, text) ==
    LET parts == Split(text) IN
    IF Len(parts) = 4
    THEN LET activity_name == parts[3]
             participant_name == parts[4]
         IN IF ActivityByName(activity_name) # {}
            THEN \E activity \in ActivityByName(activity_name) :
                   IF ParticipantByName(activity.id, participant_name) # {}
                   THEN \E participant \in
                            ParticipantByName(activity.id, participant_name) :
                          Commit(activities,
                                 ParticipantsAfterRemove(participant),
                                 user_states, next_activity_id,
                                 next_participant_id,
                                 TextEvent(u, text,
                                   <<ReplyAU("removed", activity_name,
                                             participant_name)>>, FALSE))
                   ELSE Query(TextEvent(u, text,
                          <<ReplyAU("participant_not_found", activity_name,
                                    participant_name)>>, FALSE))
            ELSE Query(TextEvent(u, text,
                   <<ReplyA("activity_not_found", activity_name)>>, FALSE))
    ELSE ReplyOnly(TextEvent(u, text, <<Reply("remove_usage")>>, FALSE))

\* the name stored without the emptiness check
TextCreate_Unchecked(u, text) ==
    Effect(activities, participants,
           StartCreate(u, Strip(From(text, 3))),
           next_activity_id, next_participant_id,
           TextEvent(u, text, <<Reply("datetime_picker")>>, FALSE))

TextCreate(u, text) ==
    LET activity_name == Strip(From(text, 3)) IN
    IF activity_name # <<>>
    THEN Effect(activities, participants, StartCreate(u, activity_name),
                next_activity_id, next_participant_id,
                TextEvent(u, text, <<Reply("datetime_picker")>>, FALSE))
    ELSE ReplyOnly(TextEvent(u, text, <<Reply("create_usage")>>, FALSE))

TextList(u, text) ==
    Query(TextEvent(u, text, ListReplies(activities, participants),
                        ListRaises(activities)))

TextIgnored(u, text) == ReplyOnly(TextEvent(u, text, <<>>, FALSE))

handle_text_message(u, text) ==
    IF StartsWith(text, PREFIX_ADD) THEN TextAddParticipant(u, text)
    ELSE IF text = CMD_HELP THEN TextHelp(u, text)
    ELSE IF text = CMD_DELETE_ALL THEN TextDeleteAll(u, text)
    ELSE IF StartsWith(text, PREFIX_REMOVE) THEN TextRemoveParticipant(u, text)
    ELSE IF StartsWith(text, PREFIX_CREATE) THEN TextCreate(u, text)
    ELSE IF text = CMD_LIST THEN TextList(u, text)
    ELSE TextIgnored(u, text)

(***************************************************************************)
(* handle_postback.  pb is the parsed postback: its action tag, the id of  *)
(* "&id=<n>" (0 when the data carries none) and params['datetime'].        *)
(***************************************************************************)
PostbackSelectDate(u, pb) ==
    IF HasDatetimeState(u)
    THEN LET activity_name == user_states[u].name IN
         IF activity_name # <<>>
         THEN LET new_activity == NewActivity(u, activity_name, pb.datetime)
                  acts2 == activities \cup {new_activity}
              IN Commit(acts2, participants, ClearState(u),
                        next_activity_id + 1, next_participant_id,
                        PostbackEvent(u, pb, "unused",
                                      ListReplies(acts2, participants),
                                      ListRaises(acts2)))
         ELSE ReplyOnly(PostbackEvent(u, pb, "unused",
                                      <<Reply("create_failed")>>, FALSE))
    ELSE ReplyOnly(PostbackEvent(u, pb, "unused",
                                 <<Reply("must_restart")>>, FALSE))

PostbackJoinActivity(u, pb, profile_ok) ==
    IF ActivityGet(pb.id) # {}
    THEN LET activity == CHOOSE a \in ActivityGet(pb.id) : TRUE
             user_name == ProfileName(u, profile_ok)
         IN IF AlreadyJoined(pb.id, u)
            THEN Query(PostbackEvent(u, pb, ProfileTag(profile_ok),
                   <<ReplyAU("already_joined", activity.name, user_name)>>,
                   FALSE))
            ELSE LET new_participant == NewParticipant(u, user_name, pb.id)
                     parts2 == participants \cup {new_participant}
                 IN Commit(activities, parts2, user_states,
                           next_activity_id, next_participant_id + 1,
                           PostbackEvent(u, pb, ProfileTag(profile_ok),
                             <<ReplyJoined("joined", activity.name, user_name,
                                 activity.datetime,
                                 Headcount(parts2, pb.id))>>, FALSE))
    ELSE Query(PostbackEvent(u, pb, "unused", <<>>, FALSE))

PostbackCancelJoin(u, pb, profile_ok) ==
    IF ActivityGet(pb.id) = {}
    THEN Query(PostbackEvent(u, pb, "unused", <<>>, FALSE))
    ELSE LET activity == CHOOSE a \in ActivityGet(pb.id) : TRUE
             user_name == ProfileName(u, profile_ok)
         IN IF ParticipantByUser(pb.id, u) # {}
            THEN \E participant \in ParticipantByUser(pb.id, u) :
                   Commit(activities, ParticipantsAfterCancel(participant),
                          user_states, next_activity_id, next_participant_id,
                          PostbackEvent(u, pb, ProfileTag(profile_ok),
                            <<ReplyAU("left", activity.name, user_name)>>,
                            FALSE))
            ELSE Query(PostbackEvent(u, pb, ProfileTag(profile_ok),
                   <<ReplyAU("not_joined", activity.name, user_name)>>, FALSE))

PostbackDeleteActivity(u, pb, profile_ok) ==
    IF ActivityGet(pb.id) # {}
    THEN LET activity == CHOOSE a \in ActivityGet(pb.id) : TRUE IN
         IF IsCreator(activity, u)
         THEN Commit(activities \ {activity}, ParticipantsAfterDelete(pb.id),
                     user_states, next_activity_id, next_participant_id,
                     PostbackEvent(u, pb, "unused",
                       <<ReplyA("deleted", activity.name)>>, FALSE))
         ELSE Query(PostbackEvent(u, pb, ProfileTag(profile_ok),
                <<ReplyAU("no_permission", activity.name,
                          ProfileName(u, profile_ok))>>, FALSE))
    ELSE Query(PostbackEvent(u, pb, "unused", <<>>, FALSE))

PostbackViewParticipants(u, pb) ==
    IF ActivityGet(pb.id) # {}
    THEN LET activity == CHOOSE a \in ActivityGet(pb.id) : TRUE IN
         Query(PostbackEvent(u, pb, "unused",
           <<[Reply("roster") EXCEPT
                !.activity_name = activity.name,
                !.datetime = activity.datetime,
                !.count = Cardinality(ParticipantsOf(pb.id)),
                !.list = {[id |-> p.id, user_name |-> p.user_name] :
                          p \in ParticipantsOf(pb.id)}]>>, FALSE))
    ELSE Query(PostbackEvent(u, pb, "unused", <<>>, FALSE))

\* the deletion also dropping every state entry
PostbackConfirmDeleteAll_ResetsStates(u, pb) ==
    Effect({}, {}, [v \in Users |-> NoState],
           next_activity_id, next_participant_id,
           PostbackEvent(u, pb, "unused", <<Reply("all_deleted")>>, FALSE))

PostbackConfirmDeleteAll(u, pb) ==
    Commit(ActivitiesAfterDeleteAll, ParticipantsAfterDeleteAll, user_states,
           next_activity_id, next_participant_id,
           PostbackEvent(u, pb, "unused", <<Reply("all_deleted")>>, FALSE))

PostbackCancelDeleteAll(u, pb) ==
    ReplyOnly(PostbackEvent(u, pb, "unused",
                            <<Reply("delete_all_cancelled")>>, FALSE))

PostbackIgnored(u, pb) ==
    ReplyOnly(PostbackEvent(u, pb, "unused", <<>>, FALSE))

handle_postback(u, pb, profile_ok) ==
    IF pb.action = "select_date" THEN PostbackSelectDate(u, pb)
    ELSE IF pb.action = "join_activity"
         THEN PostbackJoinActivity(u, pb, profile_ok)
    ELSE IF pb.action = "cancel_join"
         THEN PostbackCancelJoin(u, pb, profile_ok)
    ELSE IF pb.action = "delete_activity"
         THEN PostbackDeleteActivity(u, pb, profile_ok)
    ELSE IF pb.action = "view_participants"
         THEN PostbackViewParticipants(u, pb)
    ELSE IF pb.action = "confirm_delete_all"
         THEN PostbackConfirmDeleteAll(u, pb)
    ELSE IF pb.action = "cancel_delete_all"
         THEN PostbackCancelDeleteAll(u, pb)
    ELSE PostbackIgnored(u, pb)

\* the postbacks the cards of this program produce
Postbacks ==
    {[action |-> "select_date", id |-> 0, datetime |-> t] : t \in Times}
    \cup {[action |-> a, id |-> i, datetime |-> <<>>] :
            a \in {"join_activity", "cancel_join", "delete_activity",
                   "view_participants"},
            i \in PostbackIds}
    \cup {[action |-> a, id |-> 0, datetime |-> <<>>] :
            a \in {"confirm_delete_all", "cancel_delete_all"}}

(***************************************************************************)
(* The specification: events are handled one at a time.                    *)
(***************************************************************************)
\* no delivery is being served; nothing was acknowledged or suppressed yet
IdleRequest == [stage |-> "idle", acked |-> 0, suppressed |-> 0]

\* the handlers in flight, when deliveries are served concurrently
Threads == {1, 2}

IdleThread ==
    [pc |-> "idle", user |-> <<>>,
     pb |-> [action |-> "", id |-> 0, datetime |-> <<>>],
     profile_ok |-> TRUE, activity_name |-> <<>>]

\* The database outlives the process and user_states does not: a process
\* starts with user_states = {} over the tables an earlier run left.  Two
\* such stores are taken: the empty one of init_db on a new database, and
\* the one left by one completed create flow (activity 1, no participant).
StoresAtStart ==
    {{}, {[id |-> 1, name |-> <<"r">>, datetime |-> <<"d", SP, "t">>,
           creator_id |-> U1]}}

\* the second of these stores
StoresAtStartWithOne ==
    {[id |-> 1, name |-> <<"r">>, datetime |-> <<"d", SP, "t">>,
      creator_id |-> U1]}

Init ==
    /\ activities \in StoresAtStart
    /\ participants = {}
    /\ user_states = [u \in Users |-> NoState]
    /\ next_activity_id = Cardinality(activities) + 1
    /\ next_participant_id = 1
    /\ handled = 0
    /\ last = Event("none", <<>>, <<>>, "", 0, <<>>, "unused", <<>>, FALSE)
    /\ store_up = TRUE
    /\ request = IdleRequest
    /\ threads = [t \in Threads |-> IdleThread]
    /\ flows = [u \in Users |-> [started |-> 0, created |-> 0]]

TextMessage ==
    /\ handled < MaxEvents
    /\ \E u \in Users, text \in Texts : handle_text_message(u, text)
    /\ UNCHANGED <<store_up, request, threads, flows>>

\* get_profile is called, and may fail, in these three branches only
ProfileOutcomes(pb) ==
    IF pb.action \in {"join_activity", "cancel_join", "delete_activity"}
    THEN BOOLEAN
    ELSE {TRUE}

Postback ==
    /\ handled < MaxEvents
    /\ \E u \in Users, pb \in Postbacks :
         \E profile_ok \in ProfileOutcomes(pb) :
            handle_postback(u, pb, profile_ok)
    /\ UNCHANGED <<store_up, request, threads, flows>>

Next == TextMessage \/ Postback

Spec == Init /\ [][Next]_vars

(***************************************************************************)
(* The webhook endpoint, one delivery at a time, over a store that may be  *)
(* down.  callback() hands the body to the handler, whose try/except logs  *)
(* and suppresses every exception, and then returns 'OK'.                  *)
(***************************************************************************)
\* an endpoint that lets the exception of the handler through
CallbackResponse_Raises(raised) == IF raised THEN "error" ELSE "OK"

\* what callback() returns once handler.handle is over
CallbackResponse(raised) == "OK"

\* the users whose events the endpoint is sent in this specification
Senders == {U1}

\* a delivery arrives at /callback
Receive ==
    /\ request.stage \in {"idle", "OK"}
    /\ handled < MaxDeliveries
    /\ request' = [request EXCEPT !.stage = "received"]
    /\ UNCHANGED <<activities, participants, user_states, next_activity_id,
                   next_participant_id, handled, last, store_up, threads, flows>>

\* handler.handle(body, signature) runs the handler of the event
Handle ==
    /\ request.stage = "received"
    /\ \/ \E u \in Senders, text \in Texts : handle_text_message(u, text)
       \/ \E u \in Senders, pb \in Postbacks :
            \E profile_ok \in ProfileOutcomes(pb) :
               handle_postback(u, pb, profile_ok)
    /\ request' = [request EXCEPT
                     !.stage = "handled",
                     !.suppressed = IF last'.raised THEN @ + 1 ELSE @]
    /\ UNCHANGED <<store_up, threads, flows>>

\* return 'OK'
Acknowledge ==
    /\ request.stage = "handled"
    /\ request' = [request EXCEPT !.stage = CallbackResponse(last.raised),
                                  !.acked = @ + 1]
    /\ UNCHANGED <<activities, participants, user_states, next_activity_id,
                   next_participant_id, handled, last, store_up, threads, flows>>

\* the database goes down or comes back before the handler reaches it
StoreFlips ==
    /\ request.stage = "received"
    /\ store_up' = ~store_up
    /\ UNCHANGED <<activities, participants, user_states, next_activity_id,
                   next_participant_id, handled, last, request, threads,
                   flows>>

NextWebhook == Receive \/ Handle \/ Acknowledge \/ StoreFlips

\* the worker that took a delivery runs its handler and returns
SpecWebhook ==
    Init /\ [][NextWebhook]_vars /\ WF_vars(Handle) /\ WF_vars(Acknowledge)

(***************************************************************************)
(* The creation flow and the join path under a threaded server: two        *)
(* requests are in flight at once and a handler runs statement by          *)
(* statement, every read of user_states and every round trip to the store  *)
(* being one step.  No lock and no unique constraint orders the steps.     *)
(***************************************************************************)
InFlight == {t \in Threads : threads[t].pc # "idle"}

\* the handler of thread t moves on without finishing
Goto(t, pc) == threads' = [threads EXCEPT ![t].pc = pc]

\* the handler of thread t returns
Return(t) == threads' = [threads EXCEPT ![t] = IdleThread]

\* a guarded deletion, as if handlers of one user were serialized
StateAfterDel_OwnFlowOnly(u, activity_name) ==
    IF user_states[u].name = activity_name THEN ClearState(u) ELSE user_states

\* del user_states[user_id], by a handler that read activity_name earlier
StateAfterDel(u, activity_name) == ClearState(u)

\* "fu ben <name>" handled while other requests are in flight: the
\* assignment to user_states[user_id] and the reply
CreateStartArrives ==
    /\ handled + Cardinality(InFlight) < MaxRequests
    /\ \E u \in Users, n \in ActivityNames :
         /\ TextCreate(u, PREFIX_CREATE \o n)
         /\ flows' = [flows EXCEPT ![u].started = @ + 1]
    /\ UNCHANGED <<store_up, request, threads>>

\* a select_date or join_activity postback is handed to a free thread
PostbackArrives(t) ==
    /\ threads[t].pc = "idle"
    /\ handled + Cardinality(InFlight) < MaxRequests
    /\ \E u \in Users, pb \in Postbacks :
         /\ pb.action \in {"select_date", "join_activity"}
         /\ \E profile_ok \in ProfileOutcomes(pb) :
              threads' = [threads EXCEPT ![t] =
                 [pc |-> IF pb.action = "select_date" THEN "check" ELSE "get",
                  user |-> u, pb |-> pb, profile_ok |-> profile_ok,
                  activity_name |-> <<>>]]
    /\ UNCHANGED <<activities, participants, user_states, next_activity_id,
                   next_participant_id, handled, last, store_up, request,
                   flows>>

\* if user_id in user_states and user_states[user_id].get('step') == ...
SelectDateCheck(t) ==
    LET th == threads[t] IN
    /\ th.pc = "check"
    /\ IF HasDatetimeState(th.user)
       THEN /\ Goto(t, "name")
            /\ UNCHANGED <<activities, participants, user_states,
                           next_activity_id, next_participant_id, handled,
                           last>>
       ELSE /\ ReplyOnly(PostbackEvent(th.user, th.pb, "unused",
                                       <<Reply("must_restart")>>, FALSE))
            /\ Return(t)
    /\ UNCHANGED <<store_up, request, flows>>

\* activity_name = user_states[user_id].get('name'): KeyError when the
\* entry went away since the check
SelectDateName(t) ==
    LET th == threads[t] IN
    /\ th.pc = "name"
    /\ IF user_states[th.user] = NoState
       THEN /\ ReplyOnly(PostbackEvent(th.user, th.pb, "unused", <<>>, TRUE))
            /\ Return(t)
       ELSE /\ threads' = [threads EXCEPT
                             ![t].pc = "commit",
                             ![t].activity_name = user_states[th.user].name]
            /\ UNCHANGED <<activities, participants, user_states,
                           next_activity_id, next_participant_id, handled,
                           last>>
    /\ UNCHANGED <<store_up, request, flows>>

\* db.session.add(new_activity); db.session.commit()
SelectDateCommit(t) ==
    LET th == threads[t] IN
    /\ th.pc = "commit"
    /\ activities' = activities \cup
                       {NewActivity(th.user, th.activity_name, th.pb.datetime)}
    /\ next_activity_id' = next_activity_id + 1
    /\ Goto(t, "del")
    /\ flows' = [flows EXCEPT ![th.user].created = @ + 1]
    /\ UNCHANGED <<participants, user_states, next_participant_id, handled,
                   last, store_up, request>>

\* del user_states[user_id]: KeyError when another handler deleted it
SelectDateDel(t) ==
    LET th == threads[t] IN
    /\ th.pc = "del"
    /\ IF user_states[th.user] = NoState
       THEN /\ ReplyOnly(PostbackEvent(th.user, th.pb, "unused", <<>>, TRUE))
            /\ Return(t)
       ELSE /\ user_states' = StateAfterDel(th.user, th.activity_name)
            /\ Goto(t, "reply")
            /\ UNCHANGED <<activities, participants, next_activity_id,
                           next_participant_id, handled, last>>
    /\ UNCHANGED <<store_up, request, flows>>

\* the reply with create_activities_list_flex()
SelectDateReply(t) ==
    LET th == threads[t] IN
    /\ th.pc = "reply"
    /\ ReplyOnly(PostbackEvent(th.user, th.pb, "unused",
                               ListReplies(activities, participants),
                               ListRaises(activities)))
    /\ Return(t)
    /\ UNCHANGED <<store_up, request, flows>>

\* Activity.query.get, get_profile and the existing_participant query
JoinCheck(t) ==
    LET th == threads[t] IN
    /\ th.pc = "get"
    /\ IF ActivityGet(th.pb.id) = {}
       THEN /\ ReplyOnly(PostbackEvent(th.user, th.pb, "unused", <<>>, FALSE))
            /\ Return(t)
       ELSE IF AlreadyJoined(th.pb.id, th.user)
       THEN LET activity == CHOOSE a \in ActivityGet(th.pb.id) : TRUE IN
            /\ ReplyOnly(PostbackEvent(th.user, th.pb,
                 ProfileTag(th.profile_ok),
                 <<ReplyAU("already_joined", activity.name,
                           ProfileName(th.user, th.profile_ok))>>, FALSE))
            /\ Return(t)
       ELSE /\ Goto(t, "insert")
            /\ UNCHANGED <<activities, participants, user_states,
                           next_activity_id, next_participant_id, handled,
                           last>>
    /\ UNCHANGED <<store_up, request, flows>>

\* db.session.add(new_participant); db.session.commit() and the reply
JoinInsert(t) ==
    LET th == threads[t]
        activity == CHOOSE a \in ActivityGet(th.pb.id) : TRUE
        user_name == ProfileName(th.user, th.profile_ok)
        parts2 == participants \cup
                    {NewParticipant(th.user, user_name, th.pb.id)}
    IN
    /\ th.pc = "insert"
    /\ Effect(activities, parts2, user_states,
              next_activity_id, next_participant_id + 1,
              PostbackEvent(th.user, th.pb, ProfileTag(th.profile_ok),
                <<ReplyJoined("joined", activity.name, user_name,
                    activity.datetime, Headcount(parts2, th.pb.id))>>, FALSE))
    /\ Return(t)
    /\ UNCHANGED <<store_up, request, flows>>

NextConc ==
    \/ CreateStartArrives
    \/ \E t \in Threads :
         \/ PostbackArrives(t)
         \/ SelectDateCheck(t)
         \/ SelectDateName(t)
         \/ SelectDateCommit(t)
         \/ SelectDateDel(t)
         \/ SelectDateReply(t)
         \/ JoinCheck(t)
         \/ JoinInsert(t)

SpecConc == Init /\ [][NextConc]_vars

(***************************************************************************)
(* Properties.  last is the event handled to reach a state, so in a step   *)
(* last' is the event being handled and last the one handled before it.   *)
(***************************************************************************)
\* a create-start text command with a non-empty name
IsCreateStart(ev) ==
    /\ ev.kind = "text"
    /\ StartsWith(ev.text, PREFIX_CREATE)
    /\ Strip(From(ev.text, Len(PREFIX_CREATE))) # <<>>

\* the name a create-start command gives
CreateName(ev) == Strip(From(ev.text, Len(PREFIX_CREATE)))

IsPostback(ev, action) == ev.kind = "postback" /\ ev.action = action

Tags(ev) == [i \in 1..Len(ev.replies) |-> ev.replies[i].tag]

\* C1: a create-start command of user U with non-empty name N followed at
\* once by U's select_date postback with time T adds exactly one Activity,
\* (name N, time T, creator U), and leaves U without a state entry.
C1_CreateFlowAddsOneActivity ==
    [][(IsCreateStart(last) /\ IsPostback(last', "select_date")
        /\ last'.user = last.user)
       => /\ \E a \in activities' :
               /\ a \notin activities
               /\ activities' = activities \cup {a}
               /\ a.name = CreateName(last)
               /\ a.datetime = last'.datetime
               /\ a.creator_id = last.user
               /\ \A b \in activities : b.id # a.id
          /\ user_states'[last.user] = NoState]_vars

C1_Witness ==
    /\ IsPostback(last, "select_date")
    /\ handled = 2
    /\ user_states[last.user] = NoState
    /\ \E a \in activities :
          /\ a.id = next_activity_id - 1
          /\ a.creator_id = last.user
          /\ a.datetime = last.datetime
          /\ a.name = <<"s">>

\* C2: a select_date postback of a user without a state entry creates no
\* Activity and is answered with the "must restart" text.
C2_SelectDateWithoutState ==
    [][(IsPostback(last', "select_date") /\ user_states[last'.user] = NoState)
       => /\ activities' = activities
          /\ last'.replies = <<Reply("must_restart")>>]_vars

C2_Witness ==
    /\ IsPostback(last, "select_date")
    /\ last.replies = <<Reply("must_restart")>>
    /\ user_states[last.user] = NoState

\* C3: after a create-start command with non-empty name N the state entry
\* of the sender is (step = datetime, name = N), and the command adds no
\* Activity.
C3_CreateStartStoresState ==
    [][IsCreateStart(last')
       => /\ user_states'[last'.user] =
                [step |-> "datetime", name |-> CreateName(last')]
          /\ \A n \in ActivityNames :
                last'.text = PREFIX_CREATE \o n
                   => user_states'[last'.user].name = n
          /\ activities' = activities]_vars

C3_Witness ==
    /\ IsCreateStart(last)
    /\ user_states[last.user] = [step |-> "datetime", name |-> <<"r">>]
    /\ last.text # PREFIX_CREATE \o <<"r">>
    /\ activities # {}

\* C4: handling join_activity&id=X of user U twice in sequence, X existing,
\* leaves exactly one Participant for (X, U); the second handling answers
\* "already joined" and changes no record.
C4_JoinTwiceLeavesOne ==
    [][(IsPostback(last, "join_activity") /\ IsPostback(last', "join_activity")
        /\ last'.user = last.user /\ last'.id = last.id
        /\ ActivityGet(last.id) # {})
       => /\ Cardinality({p \in participants' :
                 p.activity_id = last.id /\ p.user_id = last.user}) = 1
          /\ Tags(last') = <<"already_joined">>
          /\ participants' = participants
          /\ activities' = activities]_vars

\* C5: every Participant references an Activity that exists.
C5_NoOrphanParticipant ==
    \A p \in participants : \E a \in activities : a.id = p.activity_id

\* a delete_activity that removed an Activity which had a participant
C5_Witness ==
    /\ IsPostback(last, "delete_activity")
    /\ Tags(last) = <<"deleted">>
    /\ handled = 2
    /\ next_participant_id = 2
    /\ participants = {}

\* C6: delete_activity&id=X removes X only for X's creator; any other user
\* gets the no-permission text and X and the participants stay as they were.
C6_OnlyCreatorDeletes ==
    [][IsPostback(last', "delete_activity")
       => \A a \in ActivityGet(last'.id) :
            /\ a \notin activities' => last'.user = a.creator_id
            /\ last'.user # a.creator_id
                 => /\ Tags(last') = <<"no_permission">>
                    /\ activities' = activities
                    /\ participants' = participants]_vars

C6_Witness ==
    /\ IsPostback(last, "delete_activity")
    /\ Tags(last) = <<"no_permission">>
    /\ \E a \in ActivityGet(last.id) : a.creator_id # last.user
    /\ ParticipantsOf(last.id) # {}

\* C7: there is at most one Participant per (activity, user identifier).
C7_OneParticipantPerUser ==
    \A p, q \in participants :
        (p.activity_id = q.activity_id /\ p.user_id = q.user_id) => p = q

\* C8: after confirm_delete_all the store holds no Activity and no
\* Participant, and the reply is the "all deleted" text.
C8_ConfirmDeleteAllEmptiesStore ==
    IsPostback(last, "confirm_delete_all")
       => /\ activities = {}
          /\ participants = {}
          /\ last.replies = <<Reply("all_deleted")>>

\* a confirm_delete_all handled when an activity with a participant existed
C8_Witness ==
    /\ IsPostback(last, "confirm_delete_all")
    /\ handled = 2
    /\ next_participant_id = 2
    /\ activities = {}

\* C9: the "delete all" text command and the cancel_delete_all postback
\* change no Activity, no Participant and no state entry; the command is
\* answered with the two-button card, the postback with the "cancelled" text.
C9_DeleteAllAskAndCancelChangeNothing ==
    [][/\ (last'.kind = "text" /\ last'.text = CMD_DELETE_ALL)
            => /\ UNCHANGED <<activities, participants, user_states>>
               /\ Tags(last') = <<"confirm_delete_all_card">>
               /\ last'.replies[1].list =
                      {"confirm_delete_all", "cancel_delete_all"}
       /\ IsPostback(last', "cancel_delete_all")
            => /\ UNCHANGED <<activities, participants, user_states>>
               /\ Tags(last') = <<"delete_all_cancelled">>]_vars

\* the command handled over a store with an activity, a participant and a
\* state entry
C9_Witness ==
    /\ last.kind = "text" /\ last.text = CMD_DELETE_ALL
    /\ activities # {}
    /\ participants # {}
    /\ \E u \in Users : user_states[u] # NoState

\* a text message that matches no command of handle_text_message
MatchesNoCommand(text) ==
    /\ ~StartsWith(text, PREFIX_ADD)
    /\ ~StartsWith(text, PREFIX_REMOVE)
    /\ ~StartsWith(text, PREFIX_CREATE)
    /\ text \notin {CMD_HELP, CMD_DELETE_ALL, CMD_LIST}

\* C10: an event handled without an exception is answered exactly once,
\* but for a text matching no command and a cancel_join of an Activity that
\* does not exist, which are not answered.
C10_ExactlyOneReply ==
    (last.kind # "none" /\ ~last.raised)
       => IF \/ (last.kind = "text" /\ MatchesNoCommand(last.text))
             \/ (IsPostback(last, "cancel_join") /\ ActivityGet(last.id) = {})
          THEN Len(last.replies) = 0
          ELSE Len(last.replies) = 1

\* C11: after Activity X was deleted, view_participants&id=X is answered
\* with a not-found reply.  (An id below the serial that is not in the table
\* was deleted.)
C11_ViewDeletedNotFound ==
    (IsPostback(last, "view_participants")
     /\ last.id < next_activity_id /\ ActivityGet(last.id) = {})
       => Tags(last) = <<"activity_not_found">>

\* the name a join, cancel or delete branch shows for its sender
ShownName(ev) == IF ev.profile = "failed" THEN ev.user ELSE DisplayName(ev.user)

\* C12: join_activity, cancel_join and a non-creator's delete_activity do
\* the same to the store and reply once whether the profile lookup succeeds
\* or fails; on failure the name used is the raw user identifier.
C12_ProfileFailureDegrades ==
    [][(last'.kind = "postback" /\ last'.profile # "unused")
       => LET u == last'.user
              id == last'.id
              mine == ParticipantByUser(id, u)
          IN /\ ~last'.raised
             /\ Len(last'.replies) = 1
             /\ last'.replies[1].user_name = ShownName(last')
             /\ activities' = activities
             /\ user_states' = user_states
             /\ last'.action = "join_activity" =>
                  IF mine # {}
                  THEN participants' = participants
                       /\ Tags(last') = <<"already_joined">>
                  ELSE /\ Tags(last') = <<"joined">>
                       /\ \E p \in participants' :
                            /\ p \notin participants
                            /\ participants' = participants \cup {p}
                            /\ p.user_id = u
                            /\ p.activity_id = id
                            /\ p.user_name = ShownName(last')
             /\ last'.action = "cancel_join" =>
                  IF mine # {}
                  THEN /\ Tags(last') = <<"left">>
                       /\ \E p \in mine : participants' = participants \ {p}
                  ELSE participants' = participants
                       /\ Tags(last') = <<"not_joined">>
             /\ last'.action = "delete_activity" =>
                  /\ participants' = participants
                  /\ Tags(last') = <<"no_permission">>]_vars

\* a join whose profile lookup failed and which stored the raw identifier
C12_Witness ==
    /\ IsPostback(last, "join_activity")
    /\ last.profile = "failed"
    /\ Tags(last) = <<"joined">>
    /\ \E p \in ParticipantsOf(last.id) :
          p.user_id = last.user /\ p.user_name = last.user

\* the usage hint a malformed command is answered with, "" for other texts
UsageHint(text) ==
    IF StartsWith(text, PREFIX_ADD) /\ Len(Split(text)) # 3 THEN "add_usage"
    ELSE IF StartsWith(text, PREFIX_REMOVE) /\ Len(Split(text)) # 4
         THEN "remove_usage"
    ELSE IF StartsWith(text, PREFIX_CREATE)
            /\ Strip(From(text, Len(PREFIX_CREATE))) = <<>>
         THEN "create_usage"
    ELSE ""

\* C14: a create-start command with an empty name and an add- or remove-
\* participant command without exactly two arguments are answered with a
\* usage hint and change no Activity, no Participant and no state entry.
C14_ValidationErrorsChangeNothing ==
    [][(last'.kind = "text" /\ UsageHint(last'.text) # "")
       => /\ UNCHANGED <<activities, participants, user_states>>
          /\ Tags(last') = <<UsageHint(last'.text)>>]_vars

\* an empty create-start of a user who has a state entry
C14_Witness ==
    /\ last.kind = "text"
    /\ UsageHint(last.text) = "create_usage"
    /\ Tags(last) = <<"create_usage">>
    /\ user_states[last.user] # NoState
    /\ participants # {}

\* C17: handling an event of user U leaves the state entry of every other
\* user as it was, and the Activity a select_date of U creates carries the
\* name stored under U.
C17_StateEntriesPerUser ==
    [][/\ \A v \in Users \ {last'.user} : user_states'[v] = user_states[v]
       /\ IsPostback(last', "select_date")
            => \A a \in activities' \ activities :
                  /\ a.name = user_states[last'.user].name
                  /\ a.creator_id = last'.user]_vars

\* a select_date that created the sender's name while another user held an
\* entry with another name
C17_Witness ==
    /\ IsPostback(last, "select_date")
    /\ \E a \in activities :
          /\ a.id = next_activity_id - 1
          /\ a.creator_id = last.user
          /\ a.name = <<"s">>
    /\ \E v \in Users \ {last.user} :
          user_states[v] = [step |-> "datetime", name |-> <<"r">>]

\* C18: a state entry of user U is removed only by a select_date of U that
\* creates the Activity, and every event other than a select_date or a
\* create-start of U leaves it as it is.
C18_EntryRemovedOnlyBySelectDate ==
    [][\A u \in Users :
         user_states[u] # NoState
         => /\ user_states'[u] = NoState
                 => /\ IsPostback(last', "select_date")
                    /\ last'.user = u
                    /\ \E a \in activities' \ activities :
                          a.creator_id = u /\ a.name = user_states[u].name
            /\ (/\ ~(IsPostback(last', "select_date") /\ last'.user = u)
                /\ ~(IsCreateStart(last') /\ last'.user = u))
                 => user_states'[u] = user_states[u]]_vars

\* a confirm_delete_all handled while both users held an entry
C18_Witness ==
    /\ IsPostback(last, "confirm_delete_all")
    /\ \A u \in Users : user_states[u] # NoState

\* C19: add-participant (A, P) of user U: no Activity named A gives
\* not-found and no change; else for the Activity named A that .first()
\* returns: a Participant named P in it gives "already registered" and no
\* change, otherwise exactly one Participant (U, P, that Activity) is added
\* and the reported headcount is that Activity's count after the insertion.
C19_AddParticipant ==
    [][(last'.kind = "text" /\ StartsWith(last'.text, PREFIX_ADD)
        /\ Len(Split(last'.text)) = 3)
       => LET A == Split(last'.text)[2]
              P == Split(last'.text)[3]
          IN /\ activities' = activities
             /\ user_states' = user_states
             /\ IF ActivityByName(A) = {}
                THEN /\ participants' = participants
                     /\ last'.replies = <<ReplyA("activity_not_found", A)>>
                ELSE \E a \in ActivityByName(A) :
                       IF ParticipantByName(a.id, P) # {}
                       THEN /\ participants' = participants
                            /\ Tags(last') = <<"already_registered">>
                       ELSE /\ Tags(last') = <<"registered">>
                            /\ \E p \in participants' :
                                 /\ p \notin participants
                                 /\ participants' = participants \cup {p}
                                 /\ p.user_id = last'.user
                                 /\ p.user_name = P
                                 /\ p.activity_id = a.id
                            /\ last'.replies[1].count =
                                 Cardinality({q \in participants' :
                                                 q.activity_id = a.id})]_vars

\* an add-participant that made the Activity's second Participant
C19_Witness ==
    /\ last.kind = "text"
    /\ Tags(last) = <<"registered">>
    /\ last.replies[1].count = 2
    /\ \E p \in participants :
          p.user_id = last.user /\ p.user_name = last.replies[1].user_name

\* C20: remove-participant (A, P) of any user: no Activity named A, or no
\* Participant named P in the Activity named A that .first() returns, gives
\* a not-found text and no change; otherwise exactly one Participant named P
\* of that Activity is deleted and no other record changes.
C20_RemoveParticipant ==
    [][(last'.kind = "text" /\ StartsWith(last'.text, PREFIX_REMOVE)
        /\ Len(Split(last'.text)) = 4)
       => LET A == Split(last'.text)[3]
              P == Split(last'.text)[4]
          IN /\ activities' = activities
             /\ user_states' = user_states
             /\ IF ActivityByName(A) = {}
                THEN /\ participants' = participants
                     /\ Tags(last') = <<"activity_not_found">>
                ELSE \E a \in ActivityByName(A) :
                       IF ParticipantByName(a.id, P) = {}
                       THEN /\ participants' = participants
                            /\ Tags(last') = <<"participant_not_found">>
                       ELSE /\ Tags(last') = <<"removed">>
                            /\ \E p \in ParticipantByName(a.id, P) :
                                 participants' = participants \ {p}]_vars

\* a removal that left another Participant of the same name in the Activity,
\* done by a user other than the one who made the removed record
C20_Witness ==
    /\ last.kind = "text"
    /\ Tags(last) = <<"removed">>
    /\ \E a \in ActivityByName(last.replies[1].activity_name) :
          \E p \in ParticipantByName(a.id, last.replies[1].user_name) :
             p.user_id = last.user

\* C13: every delivery is acknowledged in the end; when handling raises,
\* the exception is suppressed, no reply is sent for that event and the
\* endpoint still returns 'OK'; later deliveries are served.
C13_AlwaysAcknowledged ==
    /\ (request.stage = "received") ~> (request.stage = "OK")
    /\ [][(request.stage = "received" /\ request'.stage # "received"
           /\ last'.raised)
          => /\ last'.replies = <<>>
             /\ request'.stage = "handled"
             /\ request'.suppressed = request.suppressed + 1]_vars
    /\ [](request.stage \in {"idle", "OK"} => request.acked = handled)
    /\ [](request.stage = "OK" => ~last.raised \/ last.replies = <<>>)

\* a delivery answered after an earlier one failed on the store and was
\* acknowledged all the same
C13_Witness ==
    /\ request.stage = "OK"
    /\ request.acked = 2
    /\ request.suppressed = 1
    /\ ~last.raised
    /\ Tags(last) = <<"joined">>
    /\ activities = StoresAtStartWithOne

\* C15: when Participants are created by join_activity postbacks only, also
\* by postbacks handled concurrently, no user has two Participants of one
\* Activity.
C15_JoinPathOnePerUser ==
    \A p, q \in participants :
        (p.activity_id = q.activity_id /\ p.user_id = q.user_id) => p = q

\* C16: a select_date handler that read the name of an earlier flow and
\* reaches its del after a new create-start of the same user deletes the
\* new entry and adds no Activity for it: the new flow is lost.
C16_RaceLosesNewFlow ==
    [][\A t \in Threads :
        LET u == threads[t].user IN
        (/\ threads[t].pc = "del"
         /\ threads'[t].pc # "del"
         /\ user_states[u] # NoState
         /\ user_states[u].name # threads[t].activity_name)
        => /\ user_states'[u] = NoState
           /\ ~HasDatetimeState(u)'
           /\ activities' = activities]_vars

\* the select_date of flow r has just deleted the entry that the
\* create-start of flow s set while it was running
C16_Witness ==
    \E t \in Threads :
        /\ threads[t].pc = "reply"
        /\ threads[t].activity_name = <<"r">>
        /\ \A o \in Threads \ {t} : threads[o].pc = "idle"
        /\ handled = 2
        /\ IsCreateStart(last)
        /\ last.user = threads[t].user
        /\ CreateName(last) = <<"s">>
        /\ Len(last.replies) = 1
        /\ user_states[last.user] = NoState
        /\ \E a \in activities : a.name = <<"r">> /\ a.creator_id = last.user
        /\ ~\E a \in activities : a.name = <<"s">>

\* C21: cancel_join&id=X of user U: without Activity X nothing changes and
\* nothing is replied; with a Participant of (X, U) exactly one of them is
\* deleted and the reply is "left"; otherwise the reply is "not joined" and
\* nothing changes.  Activities and the Participants of others never change.
C21_CancelJoin ==
    [][IsPostback(last', "cancel_join")
       => LET X == last'.id
              U == last'.user
              Others(parts) ==
                  {p \in parts : ~(p.activity_id = X /\ p.user_id = U)}
          IN /\ activities' = activities
             /\ user_states' = user_states
             /\ Others(participants') = Others(participants)
             /\ ~last'.raised
             /\ IF ActivityGet(X) = {}
                THEN /\ participants' = participants
                     /\ last'.replies = <<>>
                ELSE IF ParticipantByUser(X, U) # {}
                THEN /\ Tags(last') = <<"left">>
                     /\ \E p \in ParticipantByUser(X, U) :
                          participants' = participants \ {p}
                ELSE /\ Tags(last') = <<"not_joined">>
                     /\ participants' = participants]_vars

\* a cancellation by a user who had two records in the Activity: one is left
C21_Witness ==
    /\ IsPostback(last, "cancel_join")
    /\ Tags(last) = <<"left">>
    /\ Cardinality(ParticipantByUser(last.id, last.user)) = 1
    /\ \E p \in ParticipantsOf(last.id) : p.user_id # last.user

\* C22: under any interleaving of concurrently handled events, a user
\* never has more Activity records committed than create-start commands
\* accepted: one create-start never produces two Activities.
C22_OneActivityPerCreateStart ==
    \A u \in Users : flows[u].created <= flows[u].started

\* C23: when the store fails while a select_date postback creates the
\* Activity, the state entry of the user is kept, no Activity is added and
\* nothing is replied; the next select_date of that user, the store being
\* back, completes the flow.
C23_StoreFailureKeepsState ==
    /\ [][(/\ request.stage = "received" /\ request'.stage = "handled"
           /\ IsPostback(last', "select_date")
           /\ HasDatetimeState(last'.user)
           /\ ~store_up)
          => /\ user_states' = user_states
             /\ activities' = activities
             /\ participants' = participants
             /\ last'.replies = <<>>
             /\ last'.raised]_vars
    /\ [][(/\ request.stage = "received" /\ request'.stage = "handled"
           /\ IsPostback(last, "select_date") /\ last.raised
           /\ HasDatetimeState(last.user)
           /\ IsPostback(last', "select_date") /\ last'.user = last.user
           /\ store_up)
          => /\ \E a \in activities' :
                  /\ a \notin activities
                  /\ activities' = activities \cup {a}
                  /\ a.name = user_states[last.user].name
                  /\ a.datetime = last'.datetime
                  /\ a.creator_id = last.user
             /\ user_states'[last.user] = NoState]_vars

\* a select_date that met a store that was down: acknowledged, no Activity,
\* the entry of the create-start still there
C23_Witness ==
    /\ request.stage = "OK"
    /\ request.acked = 2
    /\ request.suppressed = 1
    /\ IsPostback(last, "select_date")
    /\ last.raised
    /\ last.replies = <<>>
    /\ ~store_up
    /\ activities = {}
    /\ user_states[last.user] = [step |-> "datetime", name |-> <<"s">>]

\* C24: confirm_delete_all and delete_activity leave every state entry as
\* it is; a select_date that follows completes the flow started before the
\* deletion, and after confirm_delete_all the store then holds that one new
\* Activity and no Participant.
C24_DeletionsKeepStateEntries ==
    /\ [][(IsPostback(last', "confirm_delete_all")
           \/ IsPostback(last', "delete_activity"))
          => user_states' = user_states]_vars
    /\ [][(/\ IsPostback(last, "confirm_delete_all")
           /\ IsPostback(last', "select_date")
           /\ user_states[last'.user] # NoState)
          => /\ activities' =
                  {[id |-> next_activity_id,
                    name |-> user_states[last'.user].name,
                    datetime |-> last'.datetime,
                    creator_id |-> last'.user]}
             /\ participants' = {}
             /\ user_states'[last'.user] = NoState]_vars
    /\ [][(/\ IsPostback(last, "delete_activity")
           /\ IsPostback(last', "select_date")
           /\ user_states[last'.user] # NoState)
          => /\ activities' = activities \cup
                  {[id |-> next_activity_id,
                    name |-> user_states[last'.user].name,
                    datetime |-> last'.datetime,
                    creator_id |-> last'.user]}
             /\ participants' = participants
             /\ user_states'[last'.user] = NoState]_vars

\* create-start, then the deletion of the Activity the store began with,
\* then the select_date: the new Activity is the only one
C24_Witness ==
    /\ IsPostback(last, "select_date")
    /\ handled = 3
    /\ next_activity_id = 3
    /\ participants = {}
    /\ user_states[last.user] = NoState
    /\ activities = {[id |-> 2, name |-> <<"s">>,
                      datetime |-> last.datetime, creator_id |-> U2]}

\* C25: a user has one state entry at most; a create-start of a user who
\* has an entry replaces the stored name and adds no Activity; the
\* select_date that follows adds exactly one Activity, named by the most
\* recent create-start, and leaves the user without an entry.
C25_SecondCreateStartReplacesName ==
    /\ [](DOMAIN user_states = Users)
    /\ [][(IsCreateStart(last') /\ user_states[last'.user] # NoState)
          => /\ user_states' = [user_states EXCEPT ![last'.user] =
                   [step |-> "datetime", name |-> CreateName(last')]]
             /\ activities' = activities]_vars
    /\ [][(/\ IsCreateStart(last) /\ IsPostback(last', "select_date")
           /\ last'.user = last.user)
          => /\ activities' = activities \cup
                  {[id |-> next_activity_id, name |-> CreateName(last),
                    datetime |-> last'.datetime, creator_id |-> last.user]}
             /\ Cardinality(activities') = Cardinality(activities) + 1
             /\ user_states'[last.user] = NoState]_vars

\* three events on an empty store, the last a select_date that made the
\* only Activity, named s
C25_Witness ==
    /\ IsPostback(last, "select_date")
    /\ handled = 3
    /\ next_activity_id = 2
    /\ user_states[last.user] = NoState
    /\ \E a \in activities :
          /\ activities = {a}
          /\ a.name = <<"s">>
          /\ a.creator_id = last.user

====
